---- MODULE Spec2Model ----
(***************************************************************************)
(* Model of streamlit_app.py: a Streamlit chat front-end that answers      *)
(* questions about insurance policies with Cortex Search + Cortex Complete.*)
(*                                                                         *)
(* Streamlit re-executes the whole script on every widget event (a         *)
(* "rerun").  st.session_state survives between reruns; Python locals do   *)
(* not.  The model follows one rerun statement group by statement group    *)
(* (variable pc), so that every single mutation of the conversation log is *)
(* a step of its own.                                                      *)
(*                                                                         *)
(* Text is modelled as a sequence of string tokens; an f-string is the     *)
(* concatenation of its literal pieces and its interpolated values, and    *)
(* the empty string is the empty sequence.                                 *)
(*                                                                         *)
(* Rendering calls (st.markdown, st.error, the debug sidebar) write no     *)
(* state and are left out; the search and completion services are opaque:  *)
(* each call answers with any of a small set of outcomes or raises.        *)
(***************************************************************************)
EXTENDS Integers, Sequences, FiniteSets, TLC

VARIABLES
    messages,               \* st.session_state.messages
    current_task,           \* st.session_state.current_task
    clear_conversation,     \* st.session_state.clear_conversation (toggle)
    selected_insurer,       \* st.session_state.selected_insurer
    selected_plan,          \* st.session_state.selected_plan
    patient_file_uploader,  \* st.session_state.patient_file_uploader
    today,                  \* datetime.now().date() of the host clock
    pc,                     \* position of the running script; "idle" between reruns
    calls,                  \* external service calls made by the current rerun
    turn_base,              \* ghost: the log as init_messages left it in the current rerun
    question,               \* local of main
    search_filter,          \* local of query_cortex_search_service
    results,                \* local: context_documents.results
    policy_context,         \* local: context_str
    patient_context,        \* local of create_prompt
    prompt,                 \* local: final_prompt
    generated_response,     \* local of main
    date_warning_str,       \* local of main
    markdown_table,         \* local of main
    final_output            \* local of main

session_vars == <<messages, current_task, clear_conversation,
                  selected_insurer, selected_plan, patient_file_uploader, today>>
local_vars == <<question, search_filter, results, policy_context, patient_context,
                prompt, generated_response, date_warning_str, markdown_table,
                final_output>>
vars == <<session_vars, pc, calls, turn_base, local_vars>>

-----------------------------------------------------------------------------
(* Bounds of the model *)

\* longest conversation log a question may still be asked on top of
MaxMessages == 3
\* longest result list the search service returns in the pure-function runs
MaxChunks == 2
\* the upload dates tried lie at most this many days around the clock date
MaxDaysAgo == 5

-----------------------------------------------------------------------------
(* Text helpers *)

Contains(text, tok) == \E i \in 1..Len(text) : text[i] = tok

Count(text, tok) == Cardinality({i \in 1..Len(text) : text[i] = tok})

-----------------------------------------------------------------------------
(* Configuration *)

insurers_list == <<"Mandiri", "BCA", "PLN", "Flakeseed", "">>

Tasks == {"general", "coverage", "copay"}

-----------------------------------------------------------------------------
(* Dates: datetime.fromisoformat, date.toordinal, date subtraction, strftime *)

EmptyDate == [kind |-> "empty", y |-> 0, m |-> 0, d |-> 0]
\* an ISO date string "YYYY-MM-DD" with the given (unvalidated) fields
IsoStr(y, m, d) == [kind |-> "str", y |-> y, m |-> m, d |-> d]
\* a datetime object, as the connector returns for a TIMESTAMP column
DateTimeObj(y, m, d) == [kind |-> "datetime", y |-> y, m |-> m, d |-> d]

IsLeap(y) == (y % 4 = 0) /\ ((y % 100 # 0) \/ (y % 400 = 0))

DaysInMonth(y, m) ==
    IF m = 2 THEN (IF IsLeap(y) THEN 29 ELSE 28)
    ELSE IF m \in {4, 6, 9, 11} THEN 30 ELSE 31

RECURSIVE DaysBeforeMonth(_, _)
DaysBeforeMonth(y, m) ==
    IF m <= 1 THEN 0 ELSE DaysBeforeMonth(y, m - 1) + DaysInMonth(y, m - 1)

DaysBeforeYear(y) ==
    (y - 1) * 365 + ((y - 1) \div 4) - ((y - 1) \div 100) + ((y - 1) \div 400)

toordinal(dt) == DaysBeforeYear(dt.y) + DaysBeforeMonth(dt.y, dt.m) + dt.d

\* what datetime.fromisoformat accepts
ValidFields(v) ==
    /\ v.y \in 1..9999
    /\ v.m \in 1..12
    /\ v.d \in 1..DaysInMonth(v.y, v.m)

Pad(n, width) ==
    LET s == ToString(n)
    IN  IF width = 4
        THEN (IF n < 10 THEN "000" \o s ELSE IF n < 100 THEN "00" \o s
              ELSE IF n < 1000 THEN "0" \o s ELSE s)
        ELSE (IF n < 10 THEN "0" \o s ELSE s)

\* date.strftime('%Y-%m-%d')
strftime(dt) == Pad(dt.y, 4) \o "-" \o Pad(dt.m, 2) \o "-" \o Pad(dt.d, 2)

\* str(value) of a metadata value interpolated into an f-string
StrOf(v) == IF v.kind = "empty" THEN <<>> ELSE <<strftime(v)>>

\* bool(value): None and "" are falsy
Truthy(v) == v.kind # "empty"

warning_header == "###### Informasi Polis (Policy Info)\n"

\* lines 358-363
days_str_mutant(days_ago) ==
    IF days_ago = 1 THEN "(1 hari yang lalu)"
    ELSE "(" \o ToString(days_ago) \o " hari yang lalu)"
days_str(days_ago) ==
    IF days_ago = 0 THEN "(hari ini)"
    ELSE IF days_ago = 1 THEN "(1 hari yang lalu)"
    ELSE "(" \o ToString(days_ago) \o " hari yang lalu)"

\* lines 340-369: the body of the try block; raised = an exception left it
date_warning_try(policy_start_date, upload_date, now) ==
    IF Truthy(policy_start_date)
    THEN [raised |-> FALSE, err |-> "",
          text |-> <<warning_header, "- Status: **Aktif**\n", "- Tanggal Berlaku: **">>
                   \o StrOf(policy_start_date) \o <<"**\n">>]
    ELSE IF Truthy(upload_date)
    THEN IF upload_date.kind = "str" /\ ~ValidFields(upload_date)
         THEN \* datetime.fromisoformat raises ValueError
              [raised |-> TRUE, err |-> "Invalid isoformat string", text |-> <<>>]
         ELSE LET days_ago == toordinal(now) - toordinal(upload_date)
              IN  [raised |-> FALSE, err |-> "",
                   text |-> <<warning_header,
                              "- **PERINGATAN**: Tanggal efektif polis tidak ditemukan.\n",
                              "- Dokumen diunggah: **", strftime(upload_date), " ",
                              days_str(days_ago), "**\n">>]
    ELSE [raised |-> FALSE, err |-> "", text |-> <<>>]   \* line 375

\* lines 371-373: except Exception as e
date_warning_except_mutant(r) == r
date_warning_except(r) ==
    IF r.raised
    THEN [raised |-> FALSE, err |-> "",
          text |-> <<warning_header, "- Gagal memuat metadata tanggal: ", r.err, "\n">>]
    ELSE r

format_date_warning(policy_start_date, upload_date, now) ==
    date_warning_except(date_warning_try(policy_start_date, upload_date, now))

-----------------------------------------------------------------------------
(* Patient context extractor *)

NoFile == [kind |-> "none", parse_ok |-> TRUE, pages |-> <<>>]
\* an uploaded PDF; pages = what page.extract_text() returns for each page
Pdf(parse_ok, pages) == [kind |-> "pdf", parse_ok |-> parse_ok, pages |-> pages]

RECURSIVE PagesText(_)
PagesText(pages) ==
    IF pages = <<>> THEN <<>> ELSE Head(pages) \o <<"\n">> \o PagesText(Tail(pages))

\* lines 384-394: the body of the try block
pdf_try(uploaded_file) ==
    IF uploaded_file.parse_ok
    THEN [raised |-> FALSE, text |-> PagesText(uploaded_file.pages)]
    ELSE [raised |-> TRUE, text |-> <<>>]           \* PdfReader raises

\* lines 395-397: except Exception: st.error(...); return ""
pdf_except_mutant(r) == r
pdf_except(r) == IF r.raised THEN [raised |-> FALSE, text |-> <<>>] ELSE r

\* lines 377-397
get_text_from_uploaded_pdf(uploaded_file) ==
    IF uploaded_file.kind = "none"
    THEN [raised |-> FALSE, text |-> <<>>]
    ELSE pdf_except(pdf_try(uploaded_file))

\* lines 242-247: the labelled block around the extracted text
wrap_patient_context(text) ==
    <<"<PATIENT_CONTEXT>", "Ini adalah laporan medis pasien yang diunggah:">>
    \o text \o <<"</PATIENT_CONTEXT>">>

\* lines 234-247: bool(uploaded_file) is True for every uploaded file
build_patient_context(uploaded_file, text) ==
    IF uploaded_file.kind # "none" THEN wrap_patient_context(text) ELSE <<>>

-----------------------------------------------------------------------------
(* Document retriever: the filter and the context string *)

Eq(field, value) == [op |-> "@eq", field |-> field, value |-> value]
ILike(field, pattern) == [op |-> "@ilike", field |-> field, value |-> pattern]

\* lines 149-168
build_search_filter_mutant(insurer, plan) ==
    [op |-> "@and",
     args |-> (IF insurer # "" THEN <<Eq("INSURER", insurer)>> ELSE <<>>)
              \o (IF plan # "" THEN <<ILike("POLICY_PLAN", "%" \o plan \o "%")>> ELSE <<>>)]
build_search_filter(insurer, plan) ==
    [op |-> "@and",
     args |-> <<Eq("language", "Indonesian")>>
              \o (IF insurer # "" THEN <<Eq("INSURER", insurer)>> ELSE <<>>)
              \o (IF plan # "" THEN <<ILike("POLICY_PLAN", "%" \o plan \o "%")>> ELSE <<>>)]

NoFilter == [op |-> "none", args |-> <<>>]

\* lines 186-190
RECURSIVE format_context_from(_, _)
format_context_from(rs, i) ==
    IF rs = <<>> THEN <<>>
    ELSE <<"Context document ", ToString(i), ": ">> \o Head(rs).chunk \o <<" \n", "\n">>
         \o format_context_from(Tail(rs), i + 1)
format_context(rs) == format_context_from(rs, 1)

-----------------------------------------------------------------------------
(* Prompt composer *)

PromptTail(policy_ctx, patient_ctx, user_question) ==
    <<"<POLICY_CONTEXT>">> \o policy_ctx \o <<"</POLICY_CONTEXT>">>
    \o patient_ctx
    \o <<"<PERTANYAAN>", user_question, "</PERTANYAAN>", "[/INST]", "Jawaban:">>

\* lines 255-274
general_template(policy_ctx, patient_ctx, user_question) ==
    <<"[INST]",
      "Anda adalah asisten cerdas yang bertugas menjawab pertanyaan tentang polis asuransi.",
      "1. Jawablah PERTANYAAN user menggunakan <POLICY_CONTEXT>.",
      "2. Jika <PATIENT_CONTEXT> disediakan, gunakan itu untuk informasi tambahan tentang pasien.",
      "3. Jawablah HANYA berdasarkan informasi yang disediakan.",
      "4. Jika <POLICY_CONTEXT> tidak berisi jawaban, jawablah \"Informasi tidak ditemukan dalam dokumen polis.\"">>
    \o PromptTail(policy_ctx, patient_ctx, user_question)

\* lines 276-295
coverage_template(policy_ctx, patient_ctx, user_question) ==
    <<"[INST]",
      "Anda adalah asisten analis perlindungan (coverage) asuransi.",
      "1. Periksa <PATIENT_CONTEXT> untuk menemukan prosedur medis yang dijalani pasien (jika ada).",
      "2. Periksa <POLICY_CONTEXT> untuk menentukan apakah prosedur tersebut ditanggung.",
      "3. Jawab HANYA dengan \"DITANGGUNG\" atau \"TIDAK DITANGGUNG\" atau \"TIDAK DISEBUTKAN\".",
      "4. Jika <CONTEXT> menyebutkan syarat, Anda tetap harus menjawab \"DITANGGUNG\", lalu berikan penjelasan singkat.">>
    \o PromptTail(policy_ctx, patient_ctx, user_question)

\* lines 297-316
copay_template(policy_ctx, patient_ctx, user_question) ==
    <<"[INST]",
      "Anda adalah asisten ekstraksi data keuangan.",
      "1. Gunakan <POLICY_CONTEXT> untuk menemukan jumlah biaya.",
      "2. Gunakan <PATIENT_CONTEXT> untuk mengidentifikasi prosedur yang ditanyakan.",
      "3. Jika <POLICY_CONTEXT> tidak menyebutkan biaya spesifik, jawablah \"Informasi biaya tidak ditemukan.\"",
      "4. JANGAN membuat kalimat panjang. Berikan jawaban yang spesifik.">>
    \o PromptTail(policy_ctx, patient_ctx, user_question)

\* line 254: the dict of the three rendered templates
prompt_templates(policy_ctx, patient_ctx, user_question) ==
    [general  |-> general_template(policy_ctx, patient_ctx, user_question),
     coverage |-> coverage_template(policy_ctx, patient_ctx, user_question),
     copay    |-> copay_template(policy_ctx, patient_ctx, user_question)]

\* line 320: prompt_templates.get(current_task, prompt_templates["general"])
select_prompt_mutant(templates, task) ==
    IF task \in DOMAIN templates
    THEN [raised |-> FALSE, text |-> templates[task]]
    ELSE [raised |-> TRUE, text |-> <<>>]           \* templates[task]: KeyError
select_prompt(templates, task) ==
    [raised |-> FALSE,
     text |-> IF task \in DOMAIN templates THEN templates[task] ELSE templates["general"]]

\* line 250: st.session_state.get("current_task", "general")
get_current_task_mutant(session_task) == "general"
get_current_task(session_task) == session_task

-----------------------------------------------------------------------------
(* Completion invoker *)

\* line 464: the value of a successful call
complete_ok(answer) == answer

\* lines 465-466: except Exception as e
complete_except_mutant(e) == [raised |-> TRUE, text |-> <<>>]
complete_except(e) == [raised |-> FALSE, text |-> <<"Error during LLM completion: ", e>>]

-----------------------------------------------------------------------------
(* Response assembler *)

Missing == "<key missing>"

\* dict.get(key, default)
Get(value, default) == IF value = Missing THEN default ELSE value

\* f"{similarity:.4f}" of a score given in units of 0.00001
Format4f(score) ==
    LET r == (score + 5) \div 10
    IN  ToString(r \div 10000) \o "." \o Pad(r % 10000, 4)

table_header ==
    <<"###### Sumber Referensi (References) \n\n",
      "| Dokumen | Link | Similarity |\n",
      "|-------|-----|------------|\n">>

\* lines 487-492
table_row(ref) ==
    <<"| ", Get(ref.relative_path, "N/A"), " | [Lihat Dokumen](", Get(ref.file_url, "#"),
      ") | ", Format4f(IF ref.scores.has THEN ref.scores.cosine_similarity ELSE 0), " |\n">>

RECURSIVE table_rows(_)
table_rows(rs) == IF rs = <<>> THEN <<>> ELSE table_row(Head(rs)) \o table_rows(Tail(rs))

\* lines 482-492
references_table_mutant(rs) ==
    table_header \o (IF rs = <<>> THEN <<>> ELSE table_row(Head(rs)))
references_table(rs) == table_header \o table_rows(rs)

\* lines 469-478
date_warning_of(rs, now) ==
    IF rs # <<>>
    THEN format_date_warning(Head(rs).POLICY_START_DATE, Head(rs).UPLOAD_DATE, now)
    ELSE [raised |-> FALSE, err |-> "", text |-> <<>>]

\* lines 495-500
build_final_output(response, date_warning, table) ==
    response \o <<"\n\n", "---\n">> \o date_warning \o <<"\n">> \o table

-----------------------------------------------------------------------------
(* Conversation state *)

\* lines 61-68
init_messages_mutant(msgs, clear) == IF clear /\ msgs # <<>> THEN Tail(msgs) ELSE msgs
init_messages(msgs, clear) == IF clear THEN <<>> ELSE msgs

UserMsg(text) == [role |-> "user", content |-> <<text>>]
AssistantMsg(text) == [role |-> "assistant", content |-> text]

-----------------------------------------------------------------------------
(* Inputs tried by the model *)

Questions == {"Apakah rawat inap ditanggung?", "Berapa co-pay operasi usus buntu?"}

InsurerInputs == {insurers_list[i] : i \in DOMAIN insurers_list}

PlanInputs == {"", "XYZ"}

CorruptPdf == Pdf(FALSE, <<>>)
EmptyPdf == Pdf(TRUE, <<>>)
ReportPdf == Pdf(TRUE, << <<"Diagnosa: apendisitis akut">> >>)
FileInputs == {NoFile, CorruptPdf, EmptyPdf, ReportPdf}

LLMAnswers == {<<"DITANGGUNG">>}
LLMErrors == {"Request timed out"}

Today0 == [kind |-> "date", y |-> 2025, m |-> 3, d |-> 1]

Score(n) == [has |-> TRUE, cosine_similarity |-> n]
NoScore == [has |-> FALSE, cosine_similarity |-> 0]

Chunk(text, path, url, scores, start, upload) ==
    [chunk |-> text, relative_path |-> path, file_url |-> url, scores |-> scores,
     POLICY_START_DATE |-> start, UPLOAD_DATE |-> upload]

cAktif == Chunk(<<"Rawat inap ditanggung penuh.">>, "Mandiri_Plan.pdf",
                "https://stage/Mandiri_Plan.pdf", Score(81234),
                IsoStr(2024, 1, 1), IsoStr(2025, 2, 28))
cBadDate == Chunk(<<"Co-pay 10% untuk operasi.">>, Missing, Missing, NoScore,
                  EmptyDate, IsoStr(2025, 2, 30))
cOld == Chunk(<<"Pengecualian: perawatan gigi.">>, "BCA_XYZ.pdf",
              "https://stage/BCA_XYZ.pdf", Score(70005),
              EmptyDate, IsoStr(2025, 2, 24))
ChunkPool == {cAktif, cBadDate, cOld}

\* what the search service answers in the conversation runs
SearchOutcomes == {<<>>, <<cAktif>>, <<cBadDate, cAktif>>, <<cOld, cBadDate>>}

-----------------------------------------------------------------------------
(* The state machine *)

NullLocals ==
    /\ question' = ""
    /\ search_filter' = NoFilter
    /\ results' = <<>>
    /\ policy_context' = <<>>
    /\ patient_context' = <<>>
    /\ prompt' = <<>>
    /\ generated_response' = <<>>
    /\ date_warning_str' = <<>>
    /\ markdown_table' = <<>>
    /\ final_output' = <<>>

Init ==
    /\ messages = <<>>
    /\ current_task = "general"
    /\ clear_conversation = FALSE
    /\ selected_insurer = ""
    /\ selected_plan = ""
    /\ patient_file_uploader = NoFile
    /\ today = Today0
    /\ pc = "idle"
    /\ calls = <<>>
    /\ turn_base = <<>>
    /\ question = ""
    /\ search_filter = NoFilter
    /\ results = <<>>
    /\ policy_context = <<>>
    /\ patient_context = <<>>
    /\ prompt = <<>>
    /\ generated_response = <<>>
    /\ date_warning_str = <<>>
    /\ markdown_table = <<>>
    /\ final_output = <<>>

\* a rerun from its start up to the chat input (lines 400-439), the widget
\* values being those of clear and task
RerunHead(clear, task) ==
    /\ pc = "idle"
    /\ messages' = init_messages(messages, clear)
    /\ turn_base' = init_messages(messages, clear)
    /\ current_task' = task
    /\ clear_conversation' = clear
    /\ calls' = <<>>
    /\ UNCHANGED today

\* a rerun in which no question was submitted: the script ends at line 439
RerunNoQuestion(clear, task) ==
    /\ RerunHead(clear, task)
    /\ pc' = "idle"
    /\ NullLocals

\* the user flips the "Clear conversation" toggle (line 81)
ToggleClear ==
    /\ RerunNoQuestion(~clear_conversation, current_task)
    /\ UNCHANGED <<selected_insurer, selected_plan, patient_file_uploader>>

\* the user picks an insurer (lines 90-97)
SelectInsurer(i) ==
    /\ i # selected_insurer
    /\ RerunNoQuestion(clear_conversation, current_task)
    /\ selected_insurer' = i
    /\ UNCHANGED <<selected_plan, patient_file_uploader>>

\* the user types a plan name (lines 99-103)
EnterPlan(p) ==
    /\ p # selected_plan
    /\ RerunNoQuestion(clear_conversation, current_task)
    /\ selected_plan' = p
    /\ UNCHANGED <<selected_insurer, patient_file_uploader>>

\* the user uploads or removes the patient report (lines 106-110)
UploadFile(f) ==
    /\ f # patient_file_uploader
    /\ RerunNoQuestion(clear_conversation, current_task)
    /\ patient_file_uploader' = f
    /\ UNCHANGED <<selected_insurer, selected_plan>>

\* the user presses one of the three task buttons (lines 414-425)
PressTaskButton(t) ==
    /\ RerunNoQuestion(clear_conversation, t)
    /\ UNCHANGED <<selected_insurer, selected_plan, patient_file_uploader>>

\* the user submits a question: the rerun reaches line 439 with it
SubmitQuestion(q) ==
    /\ Len(init_messages(messages, clear_conversation)) < MaxMessages
    /\ RerunHead(clear_conversation, current_task)
    /\ pc' = "user_msg"
    /\ question' = q
    /\ search_filter' = NoFilter
    /\ results' = <<>>
    /\ policy_context' = <<>>
    /\ patient_context' = <<>>
    /\ prompt' = <<>>
    /\ generated_response' = <<>>
    /\ date_warning_str' = <<>>
    /\ markdown_table' = <<>>
    /\ final_output' = <<>>
    /\ UNCHANGED <<selected_insurer, selected_plan, patient_file_uploader>>

\* line 442
AppendUser ==
    /\ pc = "user_msg"
    /\ messages' = Append(messages, UserMsg(question))
    /\ pc' = "resolve"
    /\ UNCHANGED <<current_task, clear_conversation, selected_insurer, selected_plan,
                   patient_file_uploader, today, calls, turn_base, local_vars>>

\* lines 145-147 and 179-183: st.error(...); st.stop() ends the script run
search_except_next_mutant == "patient"
search_except_next == "idle"

\* lines 139-147
ResolveService ==
    /\ pc = "resolve"
    /\ \E ok \in BOOLEAN :
          /\ calls' = Append(calls, [svc |-> "resolve", ok |-> ok])
          /\ pc' = IF ok THEN "search" ELSE search_except_next
    /\ UNCHANGED <<session_vars, turn_base, local_vars>>

\* lines 149-190
Search ==
    /\ pc = "search"
    /\ search_filter' = build_search_filter(selected_insurer, selected_plan)
    /\ \/ \E out \in SearchOutcomes :
             /\ calls' = Append(calls, [svc |-> "search", ok |-> TRUE])
             /\ results' = out
             /\ policy_context' = format_context(out)
             /\ pc' = "patient"
       \/ /\ calls' = Append(calls, [svc |-> "search", ok |-> FALSE])
          /\ pc' = search_except_next
          /\ UNCHANGED <<results, policy_context>>
    /\ UNCHANGED <<session_vars, turn_base, question, patient_context, prompt,
                   generated_response, date_warning_str, markdown_table, final_output>>

\* lines 233-247
PatientContext ==
    /\ pc = "patient"
    /\ LET r == get_text_from_uploaded_pdf(patient_file_uploader)
       IN  IF r.raised
           THEN pc' = "idle" /\ UNCHANGED patient_context   \* uncaught: the run dies
           ELSE /\ patient_context' = build_patient_context(patient_file_uploader, r.text)
                /\ pc' = "compose"
    /\ UNCHANGED <<session_vars, calls, turn_base, question, search_filter, results,
                   policy_context, prompt, generated_response, date_warning_str,
                   markdown_table, final_output>>

\* lines 249-331
ComposePrompt ==
    /\ pc = "compose"
    /\ LET r == select_prompt(prompt_templates(policy_context, patient_context, question),
                              get_current_task(current_task))
       IN  IF r.raised
           THEN pc' = "idle" /\ UNCHANGED prompt
           ELSE prompt' = r.text /\ pc' = "complete"
    /\ UNCHANGED <<session_vars, calls, turn_base, question, search_filter, results,
                   policy_context, patient_context, generated_response,
                   date_warning_str, markdown_table, final_output>>

\* lines 462-466
CallComplete ==
    /\ pc = "complete"
    /\ \/ \E a \in LLMAnswers :
             /\ calls' = Append(calls, [svc |-> "complete", ok |-> TRUE])
             /\ generated_response' = complete_ok(a)
             /\ pc' = "date"
       \/ \E e \in LLMErrors :
             /\ calls' = Append(calls, [svc |-> "complete", ok |-> FALSE])
             /\ LET r == complete_except(e)
                IN  IF r.raised
                    THEN pc' = "idle" /\ UNCHANGED generated_response
                    ELSE generated_response' = r.text /\ pc' = "date"
    /\ UNCHANGED <<session_vars, turn_base, question, search_filter, results,
                   policy_context, patient_context, prompt, date_warning_str,
                   markdown_table, final_output>>

\* lines 468-478
DateWarning ==
    /\ pc = "date"
    /\ LET r == date_warning_of(results, today)
       IN  IF r.raised
           THEN pc' = "idle" /\ UNCHANGED date_warning_str
           ELSE date_warning_str' = r.text /\ pc' = "table"
    /\ UNCHANGED <<session_vars, calls, turn_base, question, search_filter, results,
                   policy_context, patient_context, prompt, generated_response,
                   markdown_table, final_output>>

\* lines 481-492
ReferencesTable ==
    /\ pc = "table"
    /\ markdown_table' = references_table(results)
    /\ pc' = "final"
    /\ UNCHANGED <<session_vars, calls, turn_base, question, search_filter, results,
                   policy_context, patient_context, prompt, generated_response,
                   date_warning_str, final_output>>

\* lines 494-501
FinalOutput ==
    /\ pc = "final"
    /\ final_output' = build_final_output(generated_response, date_warning_str,
                                          markdown_table)
    /\ pc' = "record"
    /\ UNCHANGED <<session_vars, calls, turn_base, question, search_filter, results,
                   policy_context, patient_context, prompt, generated_response,
                   date_warning_str, markdown_table>>

\* lines 503-506
AppendAssistant ==
    /\ pc = "record"
    /\ messages' = Append(messages, AssistantMsg(final_output))
    /\ pc' = "idle"
    /\ UNCHANGED <<current_task, clear_conversation, selected_insurer, selected_plan,
                   patient_file_uploader, today, calls, turn_base, local_vars>>

Next ==
    \/ ToggleClear
    \/ \E i \in InsurerInputs : SelectInsurer(i)
    \/ \E p \in PlanInputs : EnterPlan(p)
    \/ \E f \in FileInputs : UploadFile(f)
    \/ \E t \in Tasks : PressTaskButton(t)
    \/ \E q \in Questions : SubmitQuestion(q)
    \/ AppendUser
    \/ ResolveService
    \/ Search
    \/ PatientContext
    \/ ComposePrompt
    \/ CallComplete
    \/ DateWarning
    \/ ReferencesTable
    \/ FinalOutput
    \/ AppendAssistant

Spec == Init /\ [][Next]_vars

-----------------------------------------------------------------------------
(* Pure-function runs: the script resumed at one statement group, with the  *)
(* values that reach it drawn from bounded sets                            *)

Seqs(S, n) == UNION {[1..k -> S] : k \in 0..n}

TaskInputs == Tasks \cup {"", "claims", "GENERAL"}

\* the state at line 249, for any task value in the session state
InitCompose ==
    /\ messages \in {<<UserMsg(q)>> : q \in Questions}
    /\ question = messages[1].content[1]
    /\ current_task \in TaskInputs
    /\ clear_conversation = FALSE
    /\ selected_insurer = ""
    /\ selected_plan = ""
    /\ patient_file_uploader \in FileInputs
    /\ today = Today0
    /\ pc = "compose"
    /\ calls = <<[svc |-> "resolve", ok |-> TRUE], [svc |-> "search", ok |-> TRUE]>>
    /\ turn_base = <<>>
    /\ search_filter = build_search_filter(selected_insurer, selected_plan)
    /\ results \in SearchOutcomes
    /\ policy_context = format_context(results)
    /\ patient_context =
          build_patient_context(patient_file_uploader,
                                get_text_from_uploaded_pdf(patient_file_uploader).text)
    /\ prompt = <<>>
    /\ generated_response = <<>>
    /\ date_warning_str = <<>>
    /\ markdown_table = <<>>
    /\ final_output = <<>>

NextCompose == ComposePrompt

SpecCompose == InitCompose /\ [][NextCompose]_vars

\* calendar arithmetic used to pick upload dates a given number of days away
PrevDay(dt) ==
    IF dt.d > 1 THEN [dt EXCEPT !.d = dt.d - 1]
    ELSE IF dt.m > 1 THEN [dt EXCEPT !.m = dt.m - 1, !.d = DaysInMonth(dt.y, dt.m - 1)]
    ELSE [dt EXCEPT !.y = dt.y - 1, !.m = 12, !.d = 31]

NextDay(dt) ==
    IF dt.d < DaysInMonth(dt.y, dt.m) THEN [dt EXCEPT !.d = dt.d + 1]
    ELSE IF dt.m < 12 THEN [dt EXCEPT !.m = dt.m + 1, !.d = 1]
    ELSE [dt EXCEPT !.y = dt.y + 1, !.m = 1, !.d = 1]

RECURSIVE NDaysBefore(_, _)
NDaysBefore(dt, n) == IF n = 0 THEN dt ELSE NDaysBefore(PrevDay(dt), n - 1)

SameDay(a, b) == a.y = b.y /\ a.m = b.m /\ a.d = b.d

TodayInputs ==
    {Today0,
     [kind |-> "date", y |-> 2024, m |-> 3, d |-> 1],
     [kind |-> "date", y |-> 2025, m |-> 1, d |-> 3]}

MalformedDates(now) ==
    {IsoStr(now.y, 2, 30), IsoStr(now.y, 13, 1), IsoStr(now.y, 4, 31),
     IsoStr(now.y, now.m, 0)}

UploadInputs(now) ==
    {EmptyDate}
    \cup {IsoStr(dt.y, dt.m, dt.d) : dt \in {NDaysBefore(now, n) : n \in 0..MaxDaysAgo}}
    \cup {DateTimeObj(dt.y, dt.m, dt.d) : dt \in {NDaysBefore(now, n) : n \in 0..MaxDaysAgo}}
    \cup {IsoStr(NextDay(now).y, NextDay(now).m, NextDay(now).d)}
    \cup MalformedDates(now)

StartInputs == {EmptyDate, IsoStr(2024, 1, 1)}

\* the state at line 468, for any pair of dates on the top-ranked chunk
InitDate ==
    /\ messages \in {<<UserMsg(q)>> : q \in {"Apakah rawat inap ditanggung?"}}
    /\ question = messages[1].content[1]
    /\ current_task = "general"
    /\ clear_conversation = FALSE
    /\ selected_insurer = ""
    /\ selected_plan = ""
    /\ patient_file_uploader = NoFile
    /\ today \in TodayInputs
    /\ pc = "date"
    /\ calls = <<[svc |-> "resolve", ok |-> TRUE], [svc |-> "search", ok |-> TRUE],
                 [svc |-> "complete", ok |-> TRUE]>>
    /\ turn_base = <<>>
    /\ search_filter = build_search_filter(selected_insurer, selected_plan)
    /\ results \in {<<Chunk(<<"Rawat inap ditanggung penuh.">>, "Mandiri_Plan.pdf",
                            "https://stage/Mandiri_Plan.pdf", Score(81234), ps, ud)>> :
                       ps \in StartInputs, ud \in UploadInputs(today)}
    /\ policy_context = format_context(results)
    /\ patient_context = <<>>
    /\ prompt = general_template(policy_context, patient_context, question)
    /\ generated_response \in LLMAnswers
    /\ date_warning_str = <<>>
    /\ markdown_table = <<>>
    /\ final_output = <<>>

NextDate == DateWarning

SpecDate == InitDate /\ [][NextDate]_vars

\* the state at line 481, for any sequence of retrieved chunks
InitAssemble ==
    /\ messages \in {<<UserMsg(q)>> : q \in Questions}
    /\ question = messages[1].content[1]
    /\ current_task = "general"
    /\ clear_conversation = FALSE
    /\ selected_insurer = ""
    /\ selected_plan = ""
    /\ patient_file_uploader = NoFile
    /\ today = Today0
    /\ pc = "table"
    /\ \E ok \in BOOLEAN :
          /\ calls = <<[svc |-> "resolve", ok |-> TRUE], [svc |-> "search", ok |-> TRUE],
                       [svc |-> "complete", ok |-> ok]>>
          /\ generated_response \in
                (IF ok THEN {complete_ok(a) : a \in LLMAnswers}
                       ELSE {complete_except(e).text : e \in LLMErrors})
    /\ turn_base = <<>>
    /\ search_filter = build_search_filter(selected_insurer, selected_plan)
    /\ results \in Seqs(ChunkPool, MaxChunks)
    /\ policy_context = format_context(results)
    /\ patient_context = <<>>
    /\ prompt = general_template(policy_context, patient_context, question)
    /\ date_warning_str = date_warning_of(results, today).text
    /\ markdown_table = <<>>
    /\ final_output = <<>>

NextAssemble == ReferencesTable \/ FinalOutput \/ AppendAssistant

SpecAssemble == InitAssemble /\ [][NextAssemble]_vars

-----------------------------------------------------------------------------
(* Predicates on the call log and the script position *)

Made(svc, ok) == \E i \in 1..Len(calls) : calls[i] = [svc |-> svc, ok |-> ok]
CallCount(svc) == Cardinality({i \in 1..Len(calls) : calls[i].svc = svc})

SearchSucceeded == Made("search", TRUE)
SearchFailed == Made("resolve", FALSE) \/ Made("search", FALSE)
CompleteRaised == Made("complete", FALSE)

ErrorIndicator == "Error during LLM completion: "

TurnDone(content) ==
    /\ pc = "idle"
    /\ messages = turn_base \o <<UserMsg(question), AssistantMsg(content)>>

-----------------------------------------------------------------------------
(* C1 *)

\* C1: in every turn whose search succeeds and whose completion call raises,
\* the script is never stopped before its end, the log stays "log before the
\* turn + the user entry" until the end, and at the end it is exactly the log
\* before the turn followed by the user entry and one assistant entry whose
\* content holds the completion-error indicator.
C1_CompletionFailureStillRecorded ==
    (SearchSucceeded /\ CompleteRaised) =>
        /\ pc \in {"date", "table", "final", "record", "idle"}
        /\ pc # "idle" =>
              /\ messages = Append(turn_base, UserMsg(question))
              /\ ENABLED (DateWarning \/ ReferencesTable \/ FinalOutput \/ AppendAssistant)
        /\ pc = "idle" =>
              /\ TurnDone(final_output)
              /\ Contains(messages[Len(messages)].content, ErrorIndicator)

C1_Witness ==
    /\ SearchSucceeded
    /\ CompleteRaised
    /\ pc = "idle"
    /\ turn_base # <<>>
    /\ Len(messages) = Len(turn_base) + 2
    /\ messages[Len(messages)].role = "assistant"

-----------------------------------------------------------------------------
(* C2 *)

\* C2: when the service handle cannot be resolved or the search call raises,
\* the script run is over in that very state, the failed call is the last
\* call of the turn and was made once, no completion call was made, and the
\* log is the log before the turn plus the user entry only.
C2_SearchFailureAbortsTurn ==
    SearchFailed =>
        /\ pc = "idle"
        /\ ~calls[Len(calls)].ok
        /\ CallCount("resolve") = 1
        /\ CallCount("search") <= 1
        /\ CallCount("complete") = 0
        /\ messages = Append(turn_base, UserMsg(question))
        /\ generated_response = <<>>
        /\ final_output = <<>>

C2_Witness ==
    /\ Made("search", FALSE)
    /\ pc = "idle"
    /\ Len(messages) >= 3
    /\ messages[Len(messages)].role = "user"

-----------------------------------------------------------------------------
(* C3 *)

HasPatientBlock(text) ==
    Contains(text, "<PATIENT_CONTEXT>") /\ Contains(text, "</PATIENT_CONTEXT>")

\* C3: the labelled patient-context block is in the composed prompt if and
\* only if the extractor returned non-empty text.
C3_PatientBlockIffText ==
    prompt # <<>> =>
        (HasPatientBlock(prompt)
            <=> get_text_from_uploaded_pdf(patient_file_uploader).text # <<>>)

-----------------------------------------------------------------------------
(* C4 *)

PredicatesOn(filter, op, field) ==
    {i \in 1..Len(filter.args) : filter.args[i].op = op /\ filter.args[i].field = field}

\* C4: every filter the retriever builds is an @and conjunction holding the
\* language = Indonesian equality, one equality on INSURER iff the insurer
\* facet is non-empty, one @ilike on POLICY_PLAN with value %plan% iff the
\* plan facet is non-empty, and nothing else.
C4_FilterShape ==
    search_filter # NoFilter =>
        LET a == search_filter.args
            ins == PredicatesOn(search_filter, "@eq", "INSURER")
            pl == PredicatesOn(search_filter, "@ilike", "POLICY_PLAN")
            lang == PredicatesOn(search_filter, "@eq", "language")
        IN  /\ search_filter.op = "@and"
            /\ Cardinality(lang) = 1
            /\ \A i \in lang : a[i].value = "Indonesian"
            /\ Cardinality(ins) = (IF selected_insurer # "" THEN 1 ELSE 0)
            /\ \A i \in ins : a[i].value = selected_insurer
            /\ Cardinality(pl) = (IF selected_plan # "" THEN 1 ELSE 0)
            /\ \A i \in pl : a[i].value = "%" \o selected_plan \o "%"
            /\ selected_plan = "XYZ" => \A i \in pl : a[i].value = "%XYZ%"
            /\ Len(a) = Cardinality(lang) + Cardinality(ins) + Cardinality(pl)

C4_Witness ==
    /\ search_filter # NoFilter
    /\ selected_insurer = "BCA"
    /\ selected_plan = "XYZ"
    /\ Len(search_filter.args) = 3

-----------------------------------------------------------------------------
(* C5 *)

\* C5: composing the prompt never stops the script on the task value; a task
\* outside {general, coverage, copay} gives the prompt of the general
\* template for the same question and contexts, a recognized task gives the
\* prompt of its own template.
C5_UnknownTaskIsGeneral ==
    /\ pc \in {"compose", "complete"}
    /\ pc = "complete" =>
          /\ current_task \notin Tasks =>
                prompt = general_template(policy_context, patient_context, question)
          /\ current_task = "general" =>
                prompt = general_template(policy_context, patient_context, question)
          /\ current_task = "coverage" =>
                prompt = coverage_template(policy_context, patient_context, question)
          /\ current_task = "copay" =>
                prompt = copay_template(policy_context, patient_context, question)

C5_Witness ==
    /\ pc = "complete"
    /\ current_task = "claims"
    /\ patient_context # <<>>
    /\ policy_context # <<>>
    /\ prompt # <<>>

-----------------------------------------------------------------------------
(* C6 *)

AktifLine == "- Status: **Aktif**\n"
NoEffectiveDateLine == "- **PERINGATAN**: Tanggal efektif polis tidak ditemukan.\n"
DateErrorLine == "- Gagal memuat metadata tanggal: "

DayPhrase(n) ==
    IF n = 0 THEN "(hari ini)"
    ELSE IF n = 1 THEN "(1 hari yang lalu)"
    ELSE "(" \o ToString(n) \o " hari yang lalu)"

WellFormed(v) == v.kind = "datetime" \/ ValidFields(v)

\* the note of a chunk without start date and with upload date ud
IsNoEffectiveDateWarning(note, ud, now) ==
    /\ Contains(note, NoEffectiveDateLine)
    /\ \A n \in 0..MaxDaysAgo :
          SameDay(ud, NDaysBefore(now, n)) =>
              /\ Contains(note, DayPhrase(n))
              /\ \A k \in 0..MaxDaysAgo : k # n => ~Contains(note, DayPhrase(k))

DateNoteComputed == pc = "table" /\ results # <<>>

\* C6 as stated: Aktif + the date when policy_start_date is non-empty; else,
\* whenever upload_date is present, the 'no effective date' warning with the
\* day-count phrase of its distance to today; else the empty string.
C6_DateNote_AsStated ==
    DateNoteComputed =>
        LET ps == Head(results).POLICY_START_DATE
            ud == Head(results).UPLOAD_DATE
        IN  /\ Truthy(ps) =>
                  Contains(date_warning_str, AktifLine)
                  /\ Contains(date_warning_str, strftime(ps))
            /\ (~Truthy(ps) /\ Truthy(ud)) =>
                  IsNoEffectiveDateWarning(date_warning_str, ud, today)
            /\ (~Truthy(ps) /\ ~Truthy(ud)) => date_warning_str = <<>>

\* C6 (amended): as stated, but the warning is the note only of an upload date
\* that parses as a date; an upload date that does not parse gives the
\* error-annotated note instead.  The date step never stops the script.
C6_DateNote ==
    /\ pc \in {"date", "table"}
    /\ DateNoteComputed =>
        LET ps == Head(results).POLICY_START_DATE
            ud == Head(results).UPLOAD_DATE
        IN  /\ Truthy(ps) =>
                  Contains(date_warning_str, AktifLine)
                  /\ Contains(date_warning_str, strftime(ps))
                  /\ ~Contains(date_warning_str, NoEffectiveDateLine)
            /\ (~Truthy(ps) /\ Truthy(ud) /\ WellFormed(ud)) =>
                  IsNoEffectiveDateWarning(date_warning_str, ud, today)
                  /\ ~Contains(date_warning_str, AktifLine)
            /\ (~Truthy(ps) /\ Truthy(ud) /\ ~WellFormed(ud)) =>
                  Contains(date_warning_str, DateErrorLine)
                  /\ ~Contains(date_warning_str, NoEffectiveDateLine)
                  /\ ~Contains(date_warning_str, AktifLine)
            /\ (~Truthy(ps) /\ ~Truthy(ud)) => date_warning_str = <<>>

C6_Witness ==
    /\ DateNoteComputed
    /\ ~Truthy(Head(results).POLICY_START_DATE)
    /\ Head(results).UPLOAD_DATE.kind = "str"
    /\ SameDay(Head(results).UPLOAD_DATE, NDaysBefore(today, 5))
    /\ Head(results).UPLOAD_DATE.m # today.m
    /\ Contains(date_warning_str, "(5 hari yang lalu)")

-----------------------------------------------------------------------------
(* C7 *)

ExtendsByOne(old, new) == Len(new) = Len(old) + 1 /\ SubSeq(new, 1, Len(old)) = old

\* C7: every step leaves the log as it is, appends one entry at its end, or
\* empties it; the log is emptied (or shortened at all) only by a rerun that
\* runs with the clear toggle on, and every such rerun leaves it empty after
\* init_messages, whatever its length was.
C7_AppendOrClearOnly ==
    [][ /\ \/ messages' = messages
           \/ ExtendsByOne(messages, messages')
           \/ messages' = <<>>
        /\ (messages' # messages /\ ~ExtendsByOne(messages, messages')) =>
              (pc = "idle" /\ clear_conversation' /\ messages' = <<>>)
        /\ (pc = "idle" /\ clear_conversation') => (messages' = <<>> /\ turn_base' = <<>>)
      ]_vars

C7_Witness ==
    /\ pc = "idle"
    /\ clear_conversation
    /\ Len(messages) = 2
    /\ messages[2].role = "assistant"

-----------------------------------------------------------------------------
(* C8 *)

\* C8: the task mode starts as general, only a task button changes it (to the
\* mode of that button), and every composed prompt is the template of the
\* task mode held by the session at that moment.
C8_TaskModeFrame ==
    /\ current_task = "general"
    /\ [][current_task' # current_task =>
             \E t \in Tasks : PressTaskButton(t) /\ current_task' = t]_vars
    /\ [](prompt # <<>> =>
             prompt = prompt_templates(policy_context, patient_context,
                                       question)[current_task])

C8_Witness ==
    /\ prompt # <<>>
    /\ current_task = "copay"
    /\ prompt = copay_template(policy_context, patient_context, question)
    /\ Len(messages) >= 3
    /\ selected_insurer # ""

-----------------------------------------------------------------------------
(* C9 *)

ExtractionFails ==
    patient_file_uploader.kind = "pdf" /\ pdf_try(patient_file_uploader).raised

DateMalformed ==
    /\ results # <<>>
    /\ date_warning_try(Head(results).POLICY_START_DATE, Head(results).UPLOAD_DATE,
                        today).raised

\* C9: for an unparsable PDF the extractor returns empty text without raising,
\* for a malformed date the date step returns the error-annotated note without
\* raising, and a turn in which either happens is not stopped: the completion
\* call is made and the turn ends with the assistant entry appended.
C9_ExtractionAndDateFailuresRecovered ==
    /\ ExtractionFails =>
          get_text_from_uploaded_pdf(patient_file_uploader) =
              [raised |-> FALSE, text |-> <<>>]
    /\ DateMalformed =>
          /\ ~date_warning_of(results, today).raised
          /\ Contains(date_warning_of(results, today).text, DateErrorLine)
    /\ (SearchSucceeded /\ (ExtractionFails \/ DateMalformed)) =>
          /\ pc # "idle" =>
                /\ messages = Append(turn_base, UserMsg(question))
                /\ ENABLED (PatientContext \/ ComposePrompt \/ CallComplete \/ DateWarning
                            \/ ReferencesTable \/ FinalOutput \/ AppendAssistant)
          /\ pc \in {"date", "table", "final", "record", "idle"} => CallCount("complete") = 1
          /\ (pc \in {"table", "final", "record", "idle"} /\ DateMalformed) =>
                Contains(date_warning_str, DateErrorLine)
          /\ pc = "idle" => TurnDone(final_output)

C9_Witness ==
    /\ pc = "idle"
    /\ SearchSucceeded
    /\ ExtractionFails
    /\ DateMalformed
    /\ messages[Len(messages)].role = "assistant"
    /\ Contains(messages[Len(messages)].content, DateErrorLine)

-----------------------------------------------------------------------------
(* C10 *)

RowLen == Len(table_row(cAktif))

\* the tokens after the table header in an assembled answer
RowsOf(content) ==
    LET h == CHOOSE i \in 1..Len(content) : content[i] = table_header[1]
    IN  SubSeq(content, h + Len(table_header), Len(content))

\* C10: the citation table of the recorded answer is the header followed by
\* exactly one data row per retrieved chunk, in retrieval order, each row
\* holding that chunk's title, link and score; no rows for no chunks.
C10_OneRowPerChunk ==
    (pc = "idle" /\ final_output # <<>>) =>
        LET content == messages[Len(messages)].content
            rows == RowsOf(content)
        IN  /\ messages[Len(messages)].role = "assistant"
            /\ Count(content, table_header[1]) = 1
            /\ \E h \in 1..Len(content) :
                  SubSeq(content, h, h + Len(table_header) - 1) = table_header
            /\ Len(rows) = RowLen * Len(results)
            /\ Count(rows, " |\n") = Len(results)
            /\ \A k \in 1..Len(results) :
                  LET row == SubSeq(rows, RowLen * (k - 1) + 1, RowLen * k)
                      ref == results[k]
                  IN  /\ row[1] = "| "
                      /\ row[2] = (IF ref.relative_path = Missing THEN "N/A"
                                   ELSE ref.relative_path)
                      /\ row[4] = (IF ref.file_url = Missing THEN "#" ELSE ref.file_url)
                      /\ row[6] = Format4f(IF ref.scores.has
                                           THEN ref.scores.cosine_similarity ELSE 0)
                      /\ row[RowLen] = " |\n"
            /\ results = <<>> => rows = <<>>

C10_Witness ==
    /\ pc = "idle"
    /\ final_output # <<>>
    /\ Len(results) >= 2
    /\ results[1] # results[2]
    /\ results[1].relative_path = Missing
    /\ Len(RowsOf(messages[Len(messages)].content)) = RowLen * Len(results)

-----------------------------------------------------------------------------
(* C11 *)

Role(i) == messages[i].role

\* every assistant entry stands right after a user entry
AssistantsFollowUsers ==
    \A i \in 1..Len(messages) : Role(i) = "assistant" => (i > 1 /\ Role(i - 1) = "user")

\* C11: in every reachable log each assistant entry is immediately preceded by
\* a user entry (so the log never starts with an assistant entry and never
\* holds two assistant entries in a row); the assistant entry a turn appends
\* goes right after the user entry of that same turn; and a script run ends
\* with its user entry left unanswered only when the service handle or the
\* search call failed in that run.
C11_LogPairing ==
    /\ [](/\ AssistantsFollowUsers
          /\ (pc = "idle" /\ messages # <<>> /\ Role(Len(messages)) = "user"
              /\ messages # turn_base) => SearchFailed)
    /\ [][ /\ (Len(messages') > Len(messages)
               /\ messages'[Len(messages')].role = "assistant") =>
                  /\ messages = Append(turn_base, UserMsg(question))
                  /\ messages' = Append(messages, AssistantMsg(final_output))
           /\ (pc # "idle" /\ pc' = "idle" /\ messages'[Len(messages')].role = "user") =>
                  (SearchFailed' /\ messages' = Append(turn_base, UserMsg(question)))
         ]_vars

C11_Witness ==
    /\ pc = "idle"
    /\ Len(messages) = 3
    /\ Role(1) = "user"
    /\ Role(2) = "user"
    /\ Role(3) = "assistant"
    /\ messages[2].content # messages[1].content
    /\ SearchSucceeded

====
